---- MODULE Spec2Model ----
(***************************************************************************)
(* State-machine model of src/unpack_swf.py: SWFFile.load and the methods  *)
(* it calls (unpackHeader1, decompress, unpackHeader2 / unpackRect,        *)
(* unpackTags / unpackTag / unpackTagHeader) together with SWFTag and the  *)
(* tagCodeTranslation table.                                               *)
(*                                                                         *)
(* A file is a sequence of bytes 0..255; the file handle is the pair       *)
(* (handle, pos): the content being read and the 0-based cursor.           *)
(* A raised Python exception is recorded in err and stops the run          *)
(* (pc = "failed"): load has no handler, so nothing later executes.        *)
(***************************************************************************)
EXTENDS Integers, Sequences, FiniteSets, TLC

VARIABLES
    input,            \* description of the file under analysis (never changes)
    handle,           \* content behind self.handle
    pos,              \* cursor of self.handle (0-based offset)
    pc,               \* position inside SWFFile.load
    err,              \* name of the exception that ended load, or "none"
    signature,        \* self.signature (<<>> while not assigned)
    compression,      \* self.compression
    version,          \* self.version
    fileLength,       \* self.fileLength
    frameSize,        \* self.frameSize (<<>> for None)
    frameRate,        \* self.frameRate
    frameCount,       \* self.frameCount
    tags,             \* self.tags
    sample,           \* local variable sample of unpackTags
    endWarnings,      \* number of 'swf has tags after an end tag!' lines printed
    unknownWarnings,  \* number of 'unknown swf tag code' lines printed by SWFTag
    rectStart,        \* history: cursor when unpackRect was called (-1 before)
    rectEnd,          \* history: cursor when unpackRect returned or raised
    stageEnd,         \* history: cursor when unpackHeader2 returned (-1 before)
    hdrStarts,        \* history: cursor at each call of unpackTagHeader
    tagEnds           \* history: cursor at each return of unpackTag

vars == <<input, handle, pos, pc, err, signature, compression, version,
          fileLength, frameSize, frameRate, frameCount, tags, sample,
          endWarnings, unknownWarnings, rectStart, rectEnd, stageEnd,
          hdrStarts, tagEnds>>

(***************************************************************************)
(* Python values                                                           *)
(***************************************************************************)
\* Python's None for the string-valued attribute self.compression
NoneStr == "<None>"
\* Python's None for the integer-valued attributes
NoneInt == 0 - 1

\* self.chunkSize
chunkSize == 16 * 4096

\* the module-level dict tagCodeTranslation
tagCodeTranslation ==
       (0 :> "End")
    @@ (1 :> "ShowFrame")
    @@ (2 :> "DefineShape")
    @@ (4 :> "PlaceObject")
    @@ (5 :> "RemoveObject")
    @@ (6 :> "DefineBits")
    @@ (7 :> "DefineButton")
    @@ (8 :> "JPEGTables")
    @@ (9 :> "SetBackgroundColor")
    @@ (10 :> "DefineFont")
    @@ (11 :> "DefineText")
    @@ (12 :> "DoAction")
    @@ (13 :> "DefineFontInfo")
    @@ (14 :> "DefineSound")
    @@ (15 :> "StartSound")
    @@ (17 :> "DefineButtonSound")
    @@ (18 :> "SoundStreamHead")
    @@ (19 :> "SoundStreamBlock")
    @@ (20 :> "DefineBitsLossless")
    @@ (21 :> "DefineBitsJPEG2")
    @@ (22 :> "DefineShape2")
    @@ (23 :> "DefineButtonCxform")
    @@ (24 :> "Protect")
    @@ (26 :> "PlaceObject2")
    @@ (28 :> "RemoveObject2")
    @@ (32 :> "DefineShape3")
    @@ (33 :> "DefineText2")
    @@ (34 :> "DefineButton2")
    @@ (35 :> "DefineBitsJPEG3")
    @@ (36 :> "DefineBitsLossless2")
    @@ (37 :> "DefineEditText")
    @@ (39 :> "DefineSprite")
    @@ (41 :> "ProductInfo")
    @@ (43 :> "FrameLabel")
    @@ (45 :> "SoundStreamHead2")
    @@ (46 :> "DefineMorphShape")
    @@ (48 :> "DefineFont2")
    @@ (56 :> "ExportAssets")
    @@ (57 :> "ImportAssets")
    @@ (58 :> "EnableDebugger")
    @@ (59 :> "DoInitAction")
    @@ (60 :> "DefineVideoStream")
    @@ (61 :> "VideoFrame")
    @@ (62 :> "DefineFontInfo2")
    @@ (63 :> "DebugID")
    @@ (64 :> "EnableDebugger2")
    @@ (65 :> "ScriptLimits")
    @@ (66 :> "SetTabIndex")
    @@ (69 :> "FileAttributes")
    @@ (70 :> "PlaceObject3")
    @@ (71 :> "ImportAssets2")
    @@ (73 :> "DefineFontAlignZones")
    @@ (74 :> "CSMTextSettings")
    @@ (75 :> "DefineFont3")
    @@ (76 :> "SymbolClass")
    @@ (77 :> "Metadata")
    @@ (78 :> "DefineScalingGrid")
    @@ (82 :> "DoABC")
    @@ (83 :> "DefineShape4")
    @@ (84 :> "DefineMorphShape2")
    @@ (86 :> "DefineSceneAndFrameLabelData")
    @@ (87 :> "DefineBinaryData")
    @@ (88 :> "DefineFontName")
    @@ (89 :> "StartSound2")
    @@ (90 :> "DefineBitsJPEG4")
    @@ (91 :> "DefineFont4")
    @@ (93 :> "EnableTelemetry")

(***************************************************************************)
(* File handle and struct / bitstruct primitives                           *)
(***************************************************************************)
\* cursor after handle.read(n) at offset p: a read stops at end of file
ReadEnd(buf, p, n) == IF n >= Len(buf) - p THEN Len(buf) ELSE p + n

\* the bytes returned by handle.read(n) at offset p
Read(buf, p, n) == SubSeq(buf, p + 1, ReadEnd(buf, p, n))

\* struct.unpack('<H', b) with len(b) = 2
U16LE(b) == b[1] + 256 * b[2]

\* struct.unpack('<I', b) with len(b) = 4 (Python integers do not overflow;
\* the files considered keep the value below 2^31)
U32LE(b) == b[1] + 256 * b[2] + 65536 * b[3] + 16777216 * b[4]

\* bit i (0 = most significant bit of the first byte) of a byte string
BitAt(data, i) == (data[(i \div 8) + 1] \div (2 ^ (7 - (i % 8)))) % 2

\* bitstruct 'u<n>': the n bits from bit offset off, most significant first
RECURSIVE UBits(_, _, _)
UBits(data, off, n) ==
    IF n = 0 THEN 0
    ELSE 2 * UBits(data, off, n - 1) + BitAt(data, off + n - 1)

\* a decoder that forgets the sign: format 'u<n>' where 's<n>' is meant
SBitsUnsigned(data, off, n) == UBits(data, off, n)

\* bitstruct 's<n>' (n >= 1): two's complement of the same n bits
SBits(data, off, n) ==
    IF BitAt(data, off) = 1
    THEN (UBits(data, off, n) - 2 ^ (n - 1)) - 2 ^ (n - 1)
    ELSE UBits(data, off, n)

\* math.ceil((size * 4 - 3) / 8), size in 0..31
RectExtraBytes(size) == (size * 4 - 3 + 7) \div 8

(***************************************************************************)
(* SWFTag                                                                  *)
(***************************************************************************)
\* a lookup that falls back to the first entry of the table
TypeNameDefaultFirst(code) ==
    IF code \in DOMAIN tagCodeTranslation THEN tagCodeTranslation[code]
    ELSE tagCodeTranslation[0]

\* tagCodeTranslation.get(self.code, '!UNKNOWN!')
TypeName(code) ==
    IF code \in DOMAIN tagCodeTranslation THEN tagCodeTranslation[code]
    ELSE "!UNKNOWN!"

\* SWFTag.__init__
SWFTag(code, length) ==
    [code |-> code, length |-> length, typeName |-> TypeName(code)]

\* placeholder where no SWFTag was constructed
NoTag == [code |-> NoneInt, length |-> NoneInt, typeName |-> NoneStr]

\* an end test that never answers yes
IsEndTagNever(tag) == FALSE

\* SWFTag.isEndTag
IsEndTag(tag) == tag.typeName = "End"

(***************************************************************************)
(* unpackHeader1                                                           *)
(***************************************************************************)
\* bytes.decode('ascii') succeeds exactly on bytes below 128
IsAscii(s) == \A i \in 1..Len(s) : s[i] < 128

SigFWS == <<70, 87, 83>>
SigCWS == <<67, 87, 83>>
SigZWS == <<90, 87, 83>>

\* result of SWFFile.unpackHeader1 on the 8 bytes read at the cursor:
\* the exception raised (or "none") and the attributes as they stand then
Header1(header) ==
    IF Len(header) # 8
    THEN [err |-> "struct.error", version |-> NoneInt, fileLength |-> NoneInt,
          compression |-> NoneStr, signature |-> <<>>]
    ELSE LET sig == SubSeq(header, 1, 3)
             ver == header[4]
             flen == U32LE(SubSeq(header, 5, 8))
             fail(e) == [err |-> e, version |-> ver, fileLength |-> flen,
                         compression |-> NoneStr, signature |-> <<>>]
             ok(c) == [err |-> "none", version |-> ver, fileLength |-> flen,
                       compression |-> c, signature |-> sig]
         IN  IF ~IsAscii(sig) THEN fail("UnicodeDecodeError")
             ELSE IF sig = SigFWS THEN ok("none")
             ELSE IF sig = SigCWS THEN ok("zlib")
             ELSE IF sig = SigZWS THEN ok("lzma")
             ELSE fail("SWFFileUnpackingException")

(***************************************************************************)
(* decompress.  The zlib and lzma libraries are outside the repository;    *)
(* a compressed body is modelled as a sequence of code units: a unit in    *)
(* 0..255 decompresses to that byte, EndUnit is the end-of-stream marker   *)
(* of the format and BadUnit is data the decompressor rejects.             *)
(***************************************************************************)
EndUnit == 256
BadUnit == 257

\* index of the first marker unit of a chunk, or 0
FirstMarker(chunk) ==
    LET ms == {i \in 1..Len(chunk) : chunk[i] > 255}
    IN  IF ms = {} THEN 0 ELSE CHOOSE i \in ms : \A j \in ms : i <= j

\* decompressor.decompress(chunk) for a decompressor whose stream has
\* (eof) or has not yet ended: output, new eof, exception
DecompressChunk(kind, eof, chunk) ==
    LET m == FirstMarker(chunk)
    IN  IF eof
        THEN IF kind = "lzma"
             THEN [out |-> <<>>, eof |-> TRUE, err |-> "EOFError"]
             ELSE [out |-> <<>>, eof |-> TRUE, err |-> "none"]
        ELSE IF m = 0
        THEN [out |-> chunk, eof |-> FALSE, err |-> "none"]
        ELSE IF chunk[m] = EndUnit
        THEN [out |-> SubSeq(chunk, 1, m - 1), eof |-> TRUE, err |-> "none"]
        ELSE [out |-> <<>>, eof |-> FALSE,
              err |-> IF kind = "zlib" THEN "zlib.error" ELSE "LZMAError"]

\* the loop of SWFFile.decompress from cursor p: the content written to the
\* temporary file, the cursor of the old handle and the exception
RECURSIVE DecompressLoop(_, _, _, _, _)
DecompressLoop(kind, buf, p, eof, temp) ==
    LET chunk == Read(buf, p, chunkSize)
        p2 == ReadEnd(buf, p, chunkSize)
    IN  IF Len(chunk) = 0 THEN [temp |-> temp, pos |-> p2, err |-> "none"]
        ELSE LET r == DecompressChunk(kind, eof, chunk)
             IN  IF r.err # "none"
                 THEN [temp |-> temp, pos |-> p2, err |-> r.err]
                 ELSE DecompressLoop(kind, buf, p2, r.eof, temp \o r.out)

(***************************************************************************)
(* unpackHeader2 / unpackRect                                              *)
(***************************************************************************)
\* result of SWFFile.unpackRect at cursor p
UnpackRect(buf, p) ==
    LET data1 == Read(buf, p, 1)
    IN  IF Len(data1) < 1
        THEN [err |-> "bitstruct.Error", pos |-> p, rect |-> <<>>]
        ELSE LET size == UBits(data1, 0, 5)
                 more == Read(buf, p + 1, RectExtraBytes(size))
                 data == data1 \o more
                 p2 == p + 1 + Len(more)
             IN  IF size = 0 \/ Len(data) * 8 < 5 + 4 * size
                 THEN [err |-> "bitstruct.Error", pos |-> p2, rect |-> <<>>]
                 ELSE [err |-> "none", pos |-> p2,
                       rect |-> <<SBits(data, 5, size),
                                  SBits(data, 5 + size, size),
                                  SBits(data, 5 + 2 * size, size),
                                  SBits(data, 5 + 3 * size, size)>>]

(***************************************************************************)
(* unpackTagHeader / unpackTag                                             *)
(***************************************************************************)
\* a shift by 5 where the code shifts by 6
TagCodeShift5(data) == data \div 32

\* data >> 6
TagCode(data) == data \div 64

\* data & 0x3f
TagInlineLength(data) == data % 64

\* result of SWFFile.unpackTagHeader at cursor p
UnpackTagHeader(buf, p) ==
    LET hdr == Read(buf, p, 2)
    IN  IF Len(hdr) < 2
        THEN [err |-> "struct.error", pos |-> p + Len(hdr), tag |-> NoTag]
        ELSE LET data == U16LE(hdr)
                 ext == Read(buf, p + 2, 4)
             IN  IF TagInlineLength(data) = 63
                 THEN IF Len(ext) < 4
                      THEN [err |-> "struct.error", pos |-> p + 2 + Len(ext),
                            tag |-> NoTag]
                      ELSE [err |-> "none", pos |-> p + 6,
                            tag |-> SWFTag(TagCode(data), U32LE(ext))]
                 ELSE [err |-> "none", pos |-> p + 2,
                       tag |-> SWFTag(TagCode(data), TagInlineLength(data))]

\* skips the payload with an absolute seek to tag.length instead of a read
UnpackTagSeek(buf, p) ==
    LET h == UnpackTagHeader(buf, p)
    IN  IF h.err # "none" THEN h
        ELSE [h EXCEPT !.pos = IF h.tag.length > Len(buf) THEN Len(buf)
                                ELSE h.tag.length]

\* result of SWFFile.unpackTag at cursor p
UnpackTag(buf, p) ==
    LET h == UnpackTagHeader(buf, p)
    IN  IF h.err # "none" THEN h
        ELSE [h EXCEPT !.pos = ReadEnd(buf, h.pos, h.tag.length)]

(***************************************************************************)
(* The steps of SWFFile.load                                               *)
(***************************************************************************)
\* an exception leaves load: nothing later runs
Raise(e) == pc' = "failed" /\ err' = e

\* self.unpackHeader1()
UnpackHeader1 ==
    /\ pc = "unpackHeader1"
    /\ LET h == Header1(Read(handle, pos, 8))
       IN  /\ pos' = ReadEnd(handle, pos, 8)
           /\ version' = h.version
           /\ fileLength' = h.fileLength
           /\ compression' = h.compression
           /\ signature' = h.signature
           /\ IF h.err = "none"
              THEN pc' = "decompress" /\ err' = err
              ELSE Raise(h.err)
    /\ UNCHANGED <<input, handle, frameSize, frameRate, frameCount, tags,
                   sample, endWarnings, unknownWarnings, rectStart, rectEnd,
                   stageEnd, hdrStarts, tagEnds>>

\* load: "if self.compression != 'none'" is false
SkipDecompress ==
    /\ pc = "decompress"
    /\ compression = "none"
    /\ pc' = "unpackHeader2"
    /\ UNCHANGED <<input, handle, pos, err, signature, compression, version,
                   fileLength, frameSize, frameRate, frameCount, tags, sample,
                   endWarnings, unknownWarnings, rectStart, rectEnd, stageEnd,
                   hdrStarts, tagEnds>>

\* load: self.decompress()
Decompress ==
    /\ pc = "decompress"
    /\ compression # "none"
    /\ IF compression \notin {"zlib", "lzma"}
       THEN Raise("Exception") /\ UNCHANGED <<handle, pos>>
       ELSE LET r == DecompressLoop(compression, handle, pos, FALSE, <<>>)
            IN  IF r.err # "none"
                THEN Raise(r.err) /\ pos' = r.pos /\ handle' = handle
                ELSE /\ handle' = r.temp
                     /\ pos' = 0
                     /\ pc' = "unpackHeader2"
                     /\ err' = err
    /\ UNCHANGED <<input, signature, compression, version, fileLength,
                   frameSize, frameRate, frameCount, tags, sample,
                   endWarnings, unknownWarnings, rectStart, rectEnd, stageEnd,
                   hdrStarts, tagEnds>>

\* load: self.unpackHeader2()
UnpackHeader2 ==
    /\ pc = "unpackHeader2"
    /\ LET r == UnpackRect(handle, pos)
           rc == Read(handle, r.pos, 4)
       IN  /\ rectStart' = pos
           /\ rectEnd' = r.pos
           /\ IF r.err # "none"
              THEN /\ Raise(r.err)
                   /\ pos' = r.pos
                   /\ UNCHANGED <<frameSize, frameRate, frameCount, stageEnd>>
              ELSE IF Len(rc) < 4
              THEN /\ Raise("struct.error")
                   /\ pos' = r.pos + Len(rc)
                   /\ frameSize' = r.rect
                   /\ UNCHANGED <<frameRate, frameCount, stageEnd>>
              ELSE /\ frameSize' = r.rect
                   /\ frameRate' = U16LE(SubSeq(rc, 1, 2))
                   /\ frameCount' = U16LE(SubSeq(rc, 3, 4))
                   /\ pos' = r.pos + 4
                   /\ stageEnd' = r.pos + 4
                   /\ pc' = "unpackTags"
                   /\ err' = err
    /\ UNCHANGED <<input, handle, signature, compression, version, fileLength,
                   tags, sample, endWarnings, unknownWarnings, hdrStarts,
                   tagEnds>>

\* unpackTags, before the loop: sample = self.handle.read(2); tag = None
UnpackTagsBegin ==
    /\ pc = "unpackTags"
    /\ sample' = Read(handle, pos, 2)
    /\ pos' = ReadEnd(handle, pos, 2)
    /\ pc' = "tagLoop"
    /\ UNCHANGED <<input, handle, err, signature, compression, version,
                   fileLength, frameSize, frameRate, frameCount, tags,
                   endWarnings, unknownWarnings, rectStart, rectEnd, stageEnd,
                   hdrStarts, tagEnds>>

\* unpackTags, one iteration of "while len(sample) > 0"
UnpackTagsLoop ==
    /\ pc = "tagLoop"
    /\ Len(sample) > 0
    /\ endWarnings' = IF Len(tags) > 0 /\ IsEndTag(tags[Len(tags)])
                      THEN endWarnings + 1 ELSE endWarnings
    /\ LET start == pos - 2
           r == UnpackTag(handle, start)
       IN  IF start < 0
           THEN /\ Raise("OSError")
                /\ UNCHANGED <<pos, tags, sample, unknownWarnings, hdrStarts,
                               tagEnds>>
           ELSE /\ hdrStarts' = Append(hdrStarts, start)
                /\ IF r.err # "none"
                   THEN /\ Raise(r.err)
                        /\ pos' = r.pos
                        /\ UNCHANGED <<tags, sample, unknownWarnings, tagEnds>>
                   ELSE /\ tags' = Append(tags, r.tag)
                        /\ unknownWarnings' =
                               IF r.tag.typeName = "!UNKNOWN!"
                               THEN unknownWarnings + 1 ELSE unknownWarnings
                        /\ tagEnds' = Append(tagEnds, r.pos)
                        /\ sample' = Read(handle, r.pos, 2)
                        /\ pos' = ReadEnd(handle, r.pos, 2)
                        /\ pc' = pc
                        /\ err' = err
    /\ UNCHANGED <<input, handle, signature, compression, version, fileLength,
                   frameSize, frameRate, frameCount, rectStart, rectEnd,
                   stageEnd>>

\* unpackTags, "while len(sample) > 0" is false: unpackTags returns
UnpackTagsExit ==
    /\ pc = "tagLoop"
    /\ Len(sample) = 0
    /\ pc' = "done"
    /\ UNCHANGED <<input, handle, pos, err, signature, compression, version,
                   fileLength, frameSize, frameRate, frameCount, tags, sample,
                   endWarnings, unknownWarnings, rectStart, rectEnd, stageEnd,
                   hdrStarts, tagEnds>>

(***************************************************************************)
(* Input files.  A file is described by the values its fields encode and   *)
(* laid out as the format prescribes: 3 signature bytes, version, u32      *)
(* length, then the (possibly compressed) body: rect, frame rate, frame    *)
(* count and the tag records.                                              *)
(***************************************************************************)
MaxTags == 3      \* longest enumerated tag list
MaxCut == 2       \* most bytes cut off the end of an enumerated body
MaxUnitsCut == 2  \* most code units cut off a compressed stream
MaxLiveTags == 2  \* longest tag list of the termination property's inputs

\* '<H' and '<I' encodings
U16Bytes(v) == <<v % 256, v \div 256>>
U32Bytes(v) == <<v % 256, (v \div 256) % 256, (v \div 65536) % 256,
                 v \div 16777216>>

Fill(n, b) == [i \in 1..n |-> b]

\* one tag record: short form, or long form (inline length 0x3f, then u32)
TagBytes(t, fill) ==
    IF t.long
    THEN U16Bytes(t.code * 64 + 63) \o U32Bytes(t.length) \o Fill(t.length, fill)
    ELSE U16Bytes(t.code * 64 + t.length) \o Fill(t.length, fill)

RECURSIVE TagsBytes(_, _)
TagsBytes(ts, fill) ==
    IF ts = <<>> THEN <<>>
    ELSE TagBytes(Head(ts), fill) \o TagsBytes(Tail(ts), fill)

\* rect = <<width, xmin, xmax, ymin, ymax>>: 5-bit width, four fields of
\* that width in two's complement, most significant bit first, zero padded
RectBit(rect, k) ==
    LET w == rect[1]
        v == rect[((k - 5) \div w) + 2]
        u == IF v < 0 THEN (v + 2 ^ (w - 1)) + 2 ^ (w - 1) ELSE v
    IN  IF k < 5 THEN (w \div (2 ^ (4 - k))) % 2
        ELSE IF k < 5 + 4 * w THEN (u \div (2 ^ (w - 1 - ((k - 5) % w)))) % 2
        ELSE 0

RectBytes(rect) ==
    [j \in 1..((5 + 4 * rect[1] + 7) \div 8) |->
        128 * RectBit(rect, 8 * (j - 1)) + 64 * RectBit(rect, 8 * (j - 1) + 1)
        + 32 * RectBit(rect, 8 * (j - 1) + 2) + 16 * RectBit(rect, 8 * (j - 1) + 3)
        + 8 * RectBit(rect, 8 * (j - 1) + 4) + 4 * RectBit(rect, 8 * (j - 1) + 5)
        + 2 * RectBit(rect, 8 * (j - 1) + 6) + RectBit(rect, 8 * (j - 1) + 7)]

\* the uncompressed body, its last d.cut bytes missing, then d.tail
BodyBytes(d) ==
    LET full == RectBytes(d.rect) \o U16Bytes(d.rate) \o U16Bytes(d.count)
                \o TagsBytes(d.tagList, d.fill)
    IN  SubSeq(full, 1, Len(full) - d.cut) \o d.tail

\* the compressed stream of a body; d.cvar = <<shape, k>>:
\*   "ok"    the complete stream
\*   "cut"   the stream ends early: no end marker and the last k units missing
\*   "bad"   a rejected unit after the first k units
\*   "trail" the complete stream followed by k further units
PackedBytes(d) ==
    LET body == BodyBytes(d)
        k == d.cvar[2]
    IN  CASE d.cvar[1] = "ok" -> body \o <<EndUnit>>
          [] d.cvar[1] = "cut" -> SubSeq(body, 1, Len(body) - k)
          [] d.cvar[1] = "bad" ->
                SubSeq(body, 1, k) \o <<BadUnit>>
                \o SubSeq(body, k + 1, Len(body)) \o <<EndUnit>>
          [] d.cvar[1] = "trail" -> body \o <<EndUnit>> \o Fill(k, 0)

\* the whole file: its first d.hlen header bytes when d.hlen < 8
FileBytes(d) ==
    LET header == d.sig \o <<d.ver>> \o U32Bytes(d.flen)
    IN  IF d.hlen < 8 THEN SubSeq(header, 1, d.hlen)
        ELSE IF d.sig \in {SigCWS, SigZWS} THEN header \o PackedBytes(d)
        ELSE header \o BodyBytes(d)

Tag(c, l, long) == [code |-> c, length |-> l, long |-> long]
TagEnd == Tag(0, 0, FALSE)
TagShowFrame == Tag(1, 0, FALSE)
TagSetBg == Tag(9, 3, FALSE)
TagLong1000 == Tag(9, 1000, TRUE)

\* the rect of the worked example: width 15, fields -100, 400, 0, 1000
RectExample == <<15, 0 - 100, 400, 0, 1000>>
RectSmall == <<2, 0 - 2, 1, 0, 1>>

BaseDesc ==
    [sig |-> SigFWS, hlen |-> 8, ver |-> 10, flen |-> 4660,
     rect |-> RectSmall, rate |-> 6144, count |-> 1,
     tagList |-> <<TagShowFrame, TagEnd>>, fill |-> 0, cut |-> 0,
     tail |-> <<>>, cvar |-> <<"ok", 0>>]

\* signature bytes: F C Z W S, another ASCII letter, a non-ASCII byte
SigByteChoices == {70, 67, 90, 87, 83, 88, 200}
SignatureInputs ==
    {[BaseDesc EXCEPT !.sig = <<a, b, c>>] :
        a \in SigByteChoices, b \in SigByteChoices, c \in SigByteChoices}
    \cup {[BaseDesc EXCEPT !.hlen = n] : n \in 0..7}

\* every width with extreme field values; the example also cut short
RectFields(w) ==
    IF w = 0 THEN {<<0, 0, 0, 0, 0>>}
    ELSE {<<w, 0 - 2 ^ (w - 1), 2 ^ (w - 1) - 1, 0, 2 ^ (w - 1) - 1>>,
          <<w, 0 - 1, 0, 0 - 2 ^ (w - 1), 0 - 1>>}
RectInputs ==
    {[BaseDesc EXCEPT !.rect = r] : r \in UNION {RectFields(w) : w \in 0..31}}
    \cup {[BaseDesc EXCEPT !.rect = RectExample, !.tagList = tl] :
            tl \in {<<>>, <<TagEnd>>}}
    \cup {[BaseDesc EXCEPT !.rect = RectExample, !.tagList = <<>>, !.cut = c] :
            c \in 1..13}

\* tag lists over known, unknown and End codes in both header forms
TagChoices ==
    {TagEnd, TagSetBg, Tag(0, 3, FALSE), Tag(99, 0, FALSE), Tag(99, 1, TRUE)}
TagLists == UNION {[1..k -> TagChoices] : k \in 0..MaxTags}
TagInputs ==
    {[BaseDesc EXCEPT !.tagList = tl, !.cut = c] :
        tl \in TagLists, c \in 0..MaxCut}
    \cup {[BaseDesc EXCEPT !.tagList = tl, !.fill = f, !.tail = <<67>>] :
        tl \in TagLists, f \in {0, 255}}

\* single tags over a wide range of header values, and the worked examples
WideInputs ==
    {[BaseDesc EXCEPT !.tagList = <<Tag(c, f[1], f[2])>>] :
        c \in {0, 1, 63, 64, 99, 511, 1023},
        f \in {<<1, FALSE>>, <<31, FALSE>>, <<62, FALSE>>, <<0, TRUE>>,
               <<62, TRUE>>, <<63, TRUE>>}}
    \cup {[BaseDesc EXCEPT !.tagList = tl] :
        tl \in {<<TagSetBg, TagLong1000>>, <<TagLong1000, TagEnd>>}}

\* compressed files: complete, cut short, corrupt, with trailing data
CompressedInputs ==
    {[BaseDesc EXCEPT !.sig = s, !.tagList = tl, !.cvar = v] :
        s \in {SigCWS, SigZWS},
        tl \in {<<>>, <<TagSetBg, TagEnd>>, <<Tag(99, 3, FALSE), TagShowFrame>>},
        v \in {<<"ok", 0>>, <<"bad", 0>>, <<"bad", 5>>, <<"trail", 2>>}
              \cup {<<"cut", k>> : k \in 0..MaxUnitsCut}}

\* a smaller family for the termination property: tag lists over three tags,
\* complete, cut short or followed by a stray byte, raw and compressed
LiveTagLists ==
    UNION {[1..k -> {TagEnd, TagSetBg, Tag(99, 1, TRUE)}] : k \in 0..MaxLiveTags}
LiveInputs ==
    {[BaseDesc EXCEPT !.tagList = tl, !.cut = c] :
        tl \in LiveTagLists, c \in 0..MaxCut}
    \cup {[BaseDesc EXCEPT !.tagList = tl, !.fill = f, !.tail = <<67>>] :
        tl \in LiveTagLists, f \in {0, 255}}
    \cup {[BaseDesc EXCEPT !.sig = s, !.tagList = <<TagSetBg, TagEnd>>,
                           !.cvar = v] :
        s \in {SigCWS, SigZWS, <<88, 87, 83>>},
        v \in {<<"ok", 0>>, <<"bad", 0>>, <<"cut", MaxUnitsCut>>}}

Inputs == SignatureInputs \cup RectInputs \cup TagInputs \cup WideInputs
          \cup CompressedInputs

(***************************************************************************)
(* Specification                                                           *)
(***************************************************************************)
\* SWFFile.__init__ up to the call of load, and load's open(), for the
\* file described by input
InitFile ==
    /\ handle = FileBytes(input)
    /\ pos = 0
    /\ pc = "unpackHeader1"
    /\ err = "none"
    /\ signature = <<>>
    /\ compression = NoneStr
    /\ version = NoneInt
    /\ fileLength = NoneInt
    /\ frameSize = <<>>
    /\ frameRate = NoneInt
    /\ frameCount = NoneInt
    /\ tags = <<>>
    /\ sample = <<>>
    /\ endWarnings = 0
    /\ unknownWarnings = 0
    /\ rectStart = NoneInt
    /\ rectEnd = NoneInt
    /\ stageEnd = NoneInt
    /\ hdrStarts = <<>>
    /\ tagEnds = <<>>

Init == input \in Inputs /\ InitFile

InitLive == input \in LiveInputs /\ InitFile

Next ==
    \/ UnpackHeader1
    \/ SkipDecompress
    \/ Decompress
    \/ UnpackHeader2
    \/ UnpackTagsBegin
    \/ UnpackTagsLoop
    \/ UnpackTagsExit

Spec == Init /\ [][Next]_vars

\* load is straight-line code: whenever a step is possible it is taken
LiveSpec == InitLive /\ [][Next]_vars /\ WF_vars(Next)

(***************************************************************************)
(* Properties                                                              *)
(***************************************************************************)
\* the file is complete and well formed as described by input
Clean(d) ==
    /\ d.hlen = 8
    /\ d.sig \in {SigFWS, SigCWS, SigZWS}
    /\ d.cvar[1] \in {"ok", "trail"}
    /\ d.cut = 0
    /\ d.tail = <<>>

\* size of the header of the i-th decoded tag: 6 in the long form
HeaderSize(i) == IF handle[hdrStarts[i] + 1] % 64 = 63 THEN 6 ELSE 2

\* the cursor before the peek of the step that decoded header i
StepStart(i) == IF i = 1 THEN stageEnd ELSE tagEnds[i - 1]

\* C1: after unpackHeader1 on a full 8-byte envelope, FWS / CWS / ZWS give
\* compression none / zlib / lzma, and every other signature ends the parse
\* with the unknown-signature exception, no compression kind set and no
\* later phase run.
C1_SignatureDispatch ==
    (input.hlen = 8 /\ pc # "unpackHeader1") =>
        IF input.sig = SigFWS THEN compression = "none"
        ELSE IF input.sig = SigCWS THEN compression = "zlib"
        ELSE IF input.sig = SigZWS THEN compression = "lzma"
        ELSE /\ pc = "failed"
             /\ err = "SWFFileUnpackingException"
             /\ compression = NoneStr
             /\ handle = FileBytes(input)
             /\ rectStart = NoneInt
             /\ hdrStarts = <<>>
             /\ tags = <<>>

\* C2: every decoded tag has code = v >> 6 and length = v & 0x3f of its
\* little-endian header value v, the length being the following u32 when
\* the inline length is 0x3f; with the payload fully present the cursor
\* advances by 2 + length (short form) or 6 + length (long form); header
\* 0x0243 gives code 9, SetBackgroundColor, length 3, advance 5.
C2_TagDecode ==
    \A i \in 1..Len(tags) :
        LET s == hdrStarts[i]
            v == handle[s + 1] + 256 * handle[s + 2]
            inline == v - 64 * tags[i].code
            present == tags[i].length <= Len(handle) - (s + HeaderSize(i))
        IN  /\ tags[i].code \in 0..1023
            /\ inline \in 0..63
            /\ inline < 63 => tags[i].length = inline /\ HeaderSize(i) = 2
            /\ inline = 63 =>
                 /\ HeaderSize(i) = 6
                 /\ tags[i].length = handle[s + 3] + 256 * handle[s + 4]
                        + 65536 * handle[s + 5] + 16777216 * handle[s + 6]
            /\ present => tagEnds[i] - s = HeaderSize(i) + tags[i].length
            /\ (v = 579 /\ present) =>
                 /\ tags[i] = [code |-> 9, length |-> 3,
                               typeName |-> "SetBackgroundColor"]
                 /\ tagEnds[i] - s = 5

\* C2 witness: the short form 0x0243 (advance 5) and the long form with
\* u32 length 1000 (advance 1006) were both decoded from one stream.
C2_Witness ==
    /\ Len(tagEnds) = 2
    /\ tags[1].code = 9 /\ tags[1].length = 3
    /\ tagEnds[1] - hdrStarts[1] = 5
    /\ tags[2].length = 1000
    /\ tagEnds[2] - hdrStarts[2] = 1006

\* C3: no tag whose declared length exceeds the bytes remaining after its
\* header is accepted into self.tags (the scan fails instead).
C3_TruncatedTagRejected ==
    \A i \in 1..Len(tags) :
        tags[i].length <= Len(handle) - (hdrStarts[i] + HeaderSize(i))

\* C4: a complete stream whose only End tag is its last tag ends in done
\* with no tags-after-End warning; the same stream with one more tag
\* after End ends in done with every tag recorded in stream order and
\* exactly one tags-after-End warning.
C4_TagsAfterEnd ==
    (pc = "done" /\ Clean(input) /\ input.tagList # <<>>) =>
        LET tl == input.tagList
            n == Len(tl)
            recorded ==
                /\ Len(tags) = n
                /\ \A i \in 1..n : /\ tags[i].code = tl[i].code
                                   /\ tags[i].length = tl[i].length
        IN  /\ (\A i \in 1..n : tl[i].code = 0 <=> i = n) =>
                 recorded /\ endWarnings = 0
            /\ (n >= 2 /\ \A i \in 1..(n - 1) : tl[i].code = 0 <=> i = n - 1) =>
                 recorded /\ endWarnings = 1

\* C4 witness: a three-tag stream with End in second place was scanned.
C4_Witness ==
    /\ pc = "done" /\ Clean(input)
    /\ Len(input.tagList) = 3
    /\ input.tagList[1].code # 0 /\ input.tagList[2].code = 0
    /\ Len(tags) = 3
    /\ endWarnings = 1

\* C5: in a complete stream a tag whose code is not in tagCodeTranslation
\* is recorded with the '!UNKNOWN!' marker; the scan does not fail, and
\* every tag of the stream is decoded and appended in order.
C5_UnknownTagContinues ==
    (Clean(input) /\ stageEnd # NoneInt) =>
        LET tl == input.tagList
        IN  /\ pc # "failed"
            /\ Len(tags) <= Len(tl)
            /\ pc = "done" => Len(tags) = Len(tl)
            /\ \A i \in 1..Len(tags) :
                 /\ tags[i].code = tl[i].code
                 /\ tags[i].length = tl[i].length
                 /\ tl[i].code \notin DOMAIN tagCodeTranslation
                      => tags[i].typeName = "!UNKNOWN!"
            /\ unknownWarnings =
                 Cardinality({i \in 1..Len(tags) :
                                 tl[i].code \notin DOMAIN tagCodeTranslation})

\* C5 witness: a stream starting with code 99 was scanned to its end and
\* the two tags after it were recorded.
C5_Witness ==
    /\ pc = "done" /\ Clean(input)
    /\ Len(tags) = 3
    /\ tags[1].code = 99 /\ tags[1].typeName = "!UNKNOWN!"
    /\ tags[2].typeName # "!UNKNOWN!"

\* the rect bytes of the input are all in the file
RectPresent ==
    /\ input.hlen = 8
    /\ input.sig \in {SigFWS, SigCWS, SigZWS}
    /\ input.cvar[1] \in {"ok", "trail"}
    /\ input.cut <= Len(TagsBytes(input.tagList, input.fill)) + 4

\* C6 as stated: the width-15 rect encoding -100, 400, 0, 1000 decodes to
\* those values and the cursor advances 8 bytes.
C6_Original ==
    (rectEnd # NoneInt /\ RectPresent /\ input.rect = RectExample) =>
        /\ frameSize = <<0 - 100, 400, 0, 1000>>
        /\ rectEnd - rectStart = 8

\* C6 amended: the width-15 rect encoding -100, 400, 0, 1000 decodes to
\* those values and the cursor advances ceil((5 + 4 * 15) / 8) = 9 bytes.
C6_RectExample ==
    (rectEnd # NoneInt /\ RectPresent /\ input.rect = RectExample) =>
        /\ frameSize = <<0 - 100, 400, 0, 1000>>
        /\ rectEnd - rectStart = 9

\* C6 witness: the example rect was read.
C6_Witness ==
    /\ input.rect = RectExample
    /\ frameSize = <<0 - 100, 400, 0, 1000>>
    /\ rectEnd - rectStart = 9

\* the rect, the frame rate and the frame count of the input are all in
\* the file
StageInfoPresent ==
    RectPresent /\ input.cut <= Len(TagsBytes(input.tagList, input.fill))

\* C7: for every declared width w in 0..31, once unpackHeader2 has run on
\* stage info that is wholly in the file, unpackRect has returned the four
\* fields with the cursor advanced by exactly ceil((5 + 4 * w) / 8) bytes,
\* and the frame rate and frame count were read as the u16 values that
\* start on that byte boundary.
C7_RectAdvance ==
    (rectEnd # NoneInt /\ StageInfoPresent) =>
        LET w == input.rect[1]
        IN  /\ w \in 0..31
            /\ 8 * (rectEnd - rectStart) >= 5 + 4 * w
            /\ 8 * (rectEnd - rectStart) < 5 + 4 * w + 8
            /\ err # "bitstruct.Error"
            /\ frameSize = SubSeq(input.rect, 2, 5)
            /\ stageEnd = rectEnd + 4
            /\ frameRate = input.rate
            /\ frameCount = input.count

\* the same statement for the widths 1..31 only
C7_RectAdvanceFrom1 ==
    input.rect[1] >= 1 => C7_RectAdvance

\* C8: when the compressed body is rejected by the decompressor or ends
\* before its end-of-stream marker, decompress fails and neither the
\* stage info nor the tag scan runs.
C8_NoSilentTruncation ==
    (/\ input.hlen = 8
     /\ input.sig \in {SigCWS, SigZWS}
     /\ input.cvar[1] \in {"cut", "bad"}
     /\ pc \notin {"unpackHeader1", "decompress"}) =>
        /\ pc = "failed"
        /\ err \in {"zlib.error", "LZMAError"}
        /\ rectStart = NoneInt
        /\ hdrStarts = <<>>
        /\ tags = <<>>

\* C9: every tag header is decoded at the cursor held before the peek of
\* its step: right after the stage info for the first header, right after
\* the previous tag's payload for the others.
C9_PeekDoesNotConsume ==
    \A i \in 1..Len(hdrStarts) : hdrStarts[i] = StepStart(i)

\* each step that appended a tag left the cursor beyond the step's start
C10_Progress ==
    \A i \in 1..Len(tagEnds) : tagEnds[i] > StepStart(i)

\* C10: the load of every file ends, in done or with an exception, and
\* each scanning step that appends a tag leaves the cursor strictly
\* further into the stream than it was before the step's peek.
C10_ScanTerminates ==
    /\ (pc = "tagLoop") ~> (pc \in {"done", "failed"})
    /\ []C10_Progress

\* C10 witness: a scan ended after three steps, the last of which started
\* with a single byte left.
C10_Witness ==
    /\ pc = "done"
    /\ Len(tagEnds) = 3
    /\ input.tail # <<>>
====
